---- MODULE Spec2Model ----
(***************************************************************************)
(* Model of the document question-answering application:                   *)
(*   src/main.py                DocumentIntelligenceApp                     *)
(*   src/document_processor.py  DocumentProcessor                           *)
(*   src/langraph_workflow.py   DocumentIntelligenceWorkflow                *)
(*                                                                         *)
(* Text is a sequence of tokens, a console line a sequence of characters.  *)
(* The external libraries (PDF reader, text splitter, vector store, chat   *)
(* model) are modelled by what the program observes of them: the value     *)
(* returned, or an exception.  The application is single threaded: one     *)
(* call is in progress at a time.                                          *)
(***************************************************************************)
EXTENDS Integers, Sequences, FiniteSets, Bags, TLC

VARIABLES
    is_initialized,  \* DocumentIntelligenceApp.is_initialized
    workflow,        \* DocumentIntelligenceApp.workflow (NoWorkflow = None)
    vectorstore,     \* DocumentProcessor.vectorstore: handle, NoStore = None
    chroma_db,       \* the collection persisted under ./chroma_db, a bag of chunks
    builds,          \* number of Chroma.from_documents calls so far
    any_setup_ok,    \* history: some setup_documents call has returned True
    last_call,       \* the most recent application call and what it returned
    pc,              \* position of the workflow run in progress
    caller,          \* who waits for the run: "api" or "loop"
    state,           \* the WorkflowState dict of the run in progress
    log,             \* per completed stage of this run: fields read and written
    llm_prompts,     \* prompts handed to llm.invoke during this run
    loop,            \* interactive_mode: "off", "running", "ended" (left the loop)
    console,         \* what interactive_mode printed this session
    inputs_read,     \* input() calls answered this session
    line             \* the raw line the last input() returned

vars == <<is_initialized, workflow, vectorstore, chroma_db, builds, any_setup_ok,
          last_call, pc, caller, state, log, llm_prompts, loop, console,
          inputs_read, line>>

appVars == <<is_initialized, workflow, vectorstore, chroma_db, builds, any_setup_ok>>
runVars == <<pc, caller, state, log, llm_prompts>>
loopVars == <<loop, console, inputs_read, line>>

----------------------------------------------------------------------------
(* Bounds of the model *)

\* Chroma.from_documents calls explored
MaxBuilds == 1
\* input() calls explored per interactive session
MaxInputs == 2
\* tokens per chunk (stands for chunk_size=1000 characters)
ChunkSize == 2

\* similarity_search(..., k=4)
K == 4

----------------------------------------------------------------------------
(* Text *)

Tok(s) == [kind |-> "text", s |-> s, n |-> 0]
\* f"\n--- Page {page_num + 1} ---\n"
PageMarker(n) == [kind |-> "marker", s |-> "--- Page ---", n |-> n]

Whitespace == {" ", "\t", "\n"}

\* a token that str.strip() would remove entirely
IsBlankToken(t) == t.kind = "text" /\ t.s \in Whitespace \cup {""}

RECURSIVE lstrip(_)
lstrip(s) == IF s # <<>> /\ s[1] \in Whitespace THEN lstrip(Tail(s)) ELSE s

RECURSIVE rstrip(_)
rstrip(s) ==
    IF s # <<>> /\ s[Len(s)] \in Whitespace THEN rstrip(SubSeq(s, 1, Len(s) - 1)) ELSE s

\* str.strip() on a line of characters
strip(s) == rstrip(lstrip(s))

UpperCase == <<"A","B","C","D","E","F","G","H","I","J","K","L","M",
               "N","O","P","Q","R","S","T","U","V","W","X","Y","Z">>
LowerCase == <<"a","b","c","d","e","f","g","h","i","j","k","l","m",
               "n","o","p","q","r","s","t","u","v","w","x","y","z">>

lowerChar(c) ==
    IF \E i \in 1..Len(UpperCase) : UpperCase[i] = c
    THEN LowerCase[CHOOSE i \in 1..Len(UpperCase) : UpperCase[i] = c]
    ELSE c

\* str.lower()
lower(s) == [i \in 1..Len(s) |-> lowerChar(s[i])]

\* text.strip() is truthy: some token survives stripping
StripIsNonEmpty(text) == \E i \in 1..Len(text) : ~IsBlankToken(text[i])

----------------------------------------------------------------------------
(* Files on disk.  raises_at: -1 the file reads cleanly, 0 fitz.open raises, *)
(* p >= 1 loading page p raises.                                            *)

AllFiles == <<
    [name |-> "broken.pdf", ext |-> ".pdf", raises_at |-> 2,
     pages |-> << <<Tok("Page one")>>, <<Tok("unreadable")>> >>],
    [name |-> "A.pdf", ext |-> ".pdf", raises_at |-> -1,
     pages |-> << <<Tok("Revenue grew 10% in Q1.")>>, <<Tok("Outlook")>> >>],
    [name |-> "empty.pdf", ext |-> ".pdf", raises_at |-> -1, pages |-> << >>],
    [name |-> "B.pdf", ext |-> ".pdf", raises_at |-> -1,
     pages |-> << <<Tok("Revenue grew 12% in Q2.")>> >>],
    [name |-> "notes.txt", ext |-> ".txt", raises_at |-> -1,
     pages |-> << <<Tok("todo")>> >>]
>>

RECURSIVE Listing(_, _)
\* the entries of AllFiles whose index is in S, in directory order
Listing(S, i) ==
    IF i > Len(AllFiles) THEN <<>>
    ELSE (IF i \in S THEN <<AllFiles[i]>> ELSE <<>>) \o Listing(S, i + 1)

NoFolder == [exists |-> FALSE, listing |-> <<>>]

\* the documents folder as a call may find it
Folders ==
    {NoFolder} \cup
    {[exists |-> TRUE, listing |-> Listing(S, 1)] : S \in SUBSET (1..Len(AllFiles))}

\* f.endswith(".pdf")
IsPdf(f) == f.ext = ".pdf"

\* pdf_files = [f for f in os.listdir(documents_folder) if f.endswith(".pdf")]
PdfFiles(folder) == SelectSeq(folder.listing, IsPdf)

RECURSIVE PagesText(_, _)
\* the text accumulated by the page loop after n pages
PagesText(f, n) ==
    IF n = 0 THEN <<>>
    ELSE PagesText(f, n - 1) \o f.pages[n] \o <<PageMarker(n)>>

extract_text_from_pdf(f) ==
    IF f.raises_at >= 0 /\ f.raises_at <= Len(f.pages)
    THEN <<>>                           \* except Exception: return ""
    ELSE PagesText(f, Len(f.pages))

Document(f, text) ==
    [page_content |-> text,
     metadata |-> [source |-> f.name, file_path |-> <<"documents", f.name>>]]

RECURSIVE LoadFrom(_)
LoadFrom(files) ==
    IF files = <<>> THEN <<>>
    ELSE LET text == extract_text_from_pdf(Head(files))
         IN  (IF StripIsNonEmpty(text) THEN <<Document(Head(files), text)>> ELSE <<>>)
             \o LoadFrom(Tail(files))

RECURSIVE LoadUntilError(_)
\* load_documents abandoning the folder at the first file that yields no text
LoadUntilError(files) ==
    IF files = <<>> THEN <<>>
    ELSE LET text == extract_text_from_pdf(Head(files))
         IN  IF StripIsNonEmpty(text)
             THEN <<Document(Head(files), text)>> \o LoadUntilError(Tail(files))
             ELSE <<>>

load_documents_stops(folder) == LoadUntilError(PdfFiles(folder))

load_documents(folder) == LoadFrom(PdfFiles(folder))

RECURSIVE split_text(_, _)
\* text_splitter.split_documents([doc]): pieces of at most ChunkSize tokens,
\* each carrying the document's metadata
split_text(text, metadata) ==
    IF text = <<>> THEN <<>>
    ELSE IF Len(text) <= ChunkSize
         THEN <<[page_content |-> text, metadata |-> metadata]>>
         ELSE <<[page_content |-> SubSeq(text, 1, ChunkSize), metadata |-> metadata]>>
              \o split_text(SubSeq(text, ChunkSize + 1, Len(text)), metadata)

RECURSIVE AllChunks(_)
\* all_chunks.extend(chunks) for every document
AllChunks(documents) ==
    IF documents = <<>> THEN <<>>
    ELSE split_text(Head(documents).page_content, Head(documents).metadata)
         \o AllChunks(Tail(documents))

RECURSIVE SeqToBag(_)
SeqToBag(s) == IF s = <<>> THEN EmptyBag ELSE SetToBag({Head(s)}) (+) SeqToBag(Tail(s))

Sources(documents) == [i \in 1..Len(documents) |-> documents[i].metadata.source]

----------------------------------------------------------------------------
(* Values *)

\* self.vectorstore = None
NoStore == 0

\* self.workflow = None
NoWorkflow == [vectorstore |-> NoStore]

NoResult ==
    [keys |-> {}, error |-> "", question |-> <<>>, answer |-> "",
     confidence |-> "", source_files |-> <<>>, num_sources |-> 0]

NoCall ==
    [op |-> "none", folder |-> NoFolder, indexed |-> <<>>, created |-> FALSE,
     question |-> <<>>, returned |-> "none", value |-> NoResult]

\* no workflow run in progress
NoState ==
    [question |-> <<>>, retrieved_docs |-> <<>>, answer |-> "",
     confidence |-> "", source_files |-> <<>>]

Fields == {"question", "retrieved_docs", "answer", "confidence", "source_files"}

Stages == {"retrieve_documents", "analyze_relevance", "generate_answer"}

\* questions an API caller passes to ask_question
Questions == { <<"H","o","w","?">>, <<"W","h","y">> }

\* lines the user types at the prompt
Lines ==
    { <<"q","u","i","t">>, <<" ","Q","u","i","t"," ">>, <<"E","X","I","T">>, <<"q">>,
      <<>>, <<" "," ">>,
      <<" ","H","o","w","?"," ">>, <<"W","h","y">> }

\* response.content of the chat model
Answers == {"According to A.pdf ...", "The documents do not say."}

Init ==
    /\ is_initialized = FALSE
    /\ workflow = NoWorkflow
    /\ vectorstore = NoStore
    /\ chroma_db = EmptyBag
    /\ builds = 0
    /\ any_setup_ok = FALSE
    /\ last_call = NoCall
    /\ pc = "idle"
    /\ caller = "api"
    /\ state = NoState
    /\ log = <<>>
    /\ llm_prompts = <<>>
    /\ loop = "off"
    /\ console = <<>>
    /\ inputs_read = 0
    /\ line = <<>>

----------------------------------------------------------------------------
(* Build phase: DocumentIntelligenceApp.setup_documents *)

SetupCall(folder, indexed, created, returned) ==
    [op |-> "setup_documents", folder |-> folder, indexed |-> indexed,
     created |-> created, question |-> <<>>, returned |-> returned,
     value |-> NoResult]

\* print(...); return False, before the processor is touched
setup_rejected(folder) ==
    /\ last_call' = SetupCall(folder, <<>>, FALSE, "False")
    /\ UNCHANGED appVars

\* process_all_documents, get_vectorstore and the test of its result.
\* Chroma.from_documents with persist_directory adds the chunks to the
\* collection already stored there.  A store handle is truthy: it is not None,
\* and the collection behind it holds at least the chunks of the build that
\* made it.
setup_process(folder) ==
    LET documents == load_documents(folder)
        create == documents # <<>>
        store == IF create THEN builds + 1 ELSE vectorstore
    IN  /\ create => builds < MaxBuilds
        /\ vectorstore' = store
        /\ builds' = IF create THEN builds + 1 ELSE builds
        /\ chroma_db' = IF create THEN chroma_db (+) SeqToBag(AllChunks(documents))
                                  ELSE chroma_db
        /\ IF store # NoStore
           THEN /\ workflow' = [vectorstore |-> store]
                /\ is_initialized' = TRUE
                /\ any_setup_ok' = TRUE
                /\ last_call' = SetupCall(folder, Sources(documents), create, "True")
           ELSE /\ UNCHANGED <<workflow, is_initialized, any_setup_ok>>
                /\ last_call' = SetupCall(folder, Sources(documents), create, "False")

\* setup_documents without the test for a folder holding no PDF file
setup_documents_unchecked(folder) ==
    /\ pc = "idle" /\ loop = "off"
    /\ IF ~folder.exists THEN setup_rejected(folder) ELSE setup_process(folder)
    /\ UNCHANGED <<runVars, loopVars>>

setup_documents(folder) ==
    /\ pc = "idle" /\ loop = "off"
    /\ IF ~folder.exists THEN setup_rejected(folder)
       ELSE IF PdfFiles(folder) = <<>> THEN setup_rejected(folder)
       ELSE setup_process(folder)
    /\ UNCHANGED <<runVars, loopVars>>

----------------------------------------------------------------------------
(* Query phase: DocumentIntelligenceWorkflow *)

\* set_entry_point
EntryPoint == "retrieve_documents"

\* a graph in which retrieval leads straight to generation
EdgeSkippingAnalysis(node) ==
    CASE node = "retrieve_documents" -> "generate_answer"
      [] node = "analyze_relevance" -> "generate_answer"
      [] node = "generate_answer" -> "done"

\* add_edge: the node that runs after `node`; "done" is END
Edge(node) ==
    CASE node = "retrieve_documents" -> "analyze_relevance"
      [] node = "analyze_relevance" -> "generate_answer"
      [] node = "generate_answer" -> "done"

Count(s, c) == Cardinality({i \in DOMAIN s : s[i] = c})

\* vectorstore.similarity_search(question, k): at most k of the stored chunks,
\* in an order the index decides.  The index is an external service: the
\* program relies on nothing more, so shorter answers, the empty one included,
\* are allowed here.
similarity_search(collection, k) ==
    LET C == BagToSet(collection)
    IN  {s \in UNION {[1..n -> C] : n \in 0..k} :
            \A c \in C : Count(s, c) <= CopiesIn(c, collection)}

\* dict.get(key, default)
MetadataGet(metadata, key, default) ==
    IF key \in DOMAIN metadata THEN metadata[key] ELSE default

SourceOf(doc) == MetadataGet(doc.metadata, "source", "Unknown")

\* the orders in which list(set(...)) may enumerate S
Orderings(S) ==
    {s \in [1..Cardinality(S) -> S] : \A i, j \in DOMAIN s : i # j => s[i] # s[j]}

\* the sources listed without passing through set()
source_files_undeduplicated(docs) == {[i \in 1..Len(docs) |-> SourceOf(docs[i])]}

\* list(set([doc.metadata.get("source", "Unknown") for doc in docs]))
source_files_of(docs) == Orderings({SourceOf(docs[i]) : i \in 1..Len(docs)})

\* the confidence test with > in place of >=
confidence_strict(docs) ==
    IF Len(docs) > 3 THEN "High - Found multiple relevant sources"
    ELSE IF Len(docs) > 1 THEN "Medium - Found some relevant information"
    ELSE "Low - Limited relevant information found"

confidence_of(docs) ==
    IF Len(docs) >= 3 THEN "High - Found multiple relevant sources"
    ELSE IF Len(docs) >= 1 THEN "Medium - Found some relevant information"
    ELSE "Low - Limited relevant information found"

\* "\n\n".join(f"From {source}:\n{page_content}" for doc in retrieved_docs)
Context(docs) ==
    [i \in 1..Len(docs) |-> [from |-> SourceOf(docs[i]), text |-> docs[i].page_content]]

Prompt(docs, question) == [context |-> Context(docs), question |-> question]

LogEntry(stage, reads, writes) == [stage |-> stage, reads |-> reads, writes |-> writes]

AskCall(question, returned, value) ==
    [op |-> "ask_question", folder |-> NoFolder, indexed |-> <<>>, created |-> FALSE,
     question |-> question, returned |-> returned, value |-> value]

NoRun == /\ pc' = "idle" /\ state' = NoState /\ log' = <<>> /\ llm_prompts' = <<>>

\* interactive_mode leaving its loop on an exception
exception_ends_loop(who) ==
    IF who = "loop"
    THEN /\ console' = Append(console, "error")
         /\ loop' = "ended"
         /\ UNCHANGED <<inputs_read, line>>
    ELSE UNCHANGED loopVars

\* an exception leaves ask_question: an API caller sees it raised;
\* interactive_mode runs except Exception as e: print(f"Error: {str(e)}")
\* and goes round the loop again
handle_exception(who) ==
    IF who = "loop"
    THEN /\ console' = Append(console, "error")
         /\ UNCHANGED <<loop, inputs_read, line>>
    ELSE UNCHANGED loopVars

ErrorResult ==
    [NoResult EXCEPT !.keys = {"error"},
                     !.error = "System not initialized. Please run setup_documents() first."]

\* display_result reads result["answer"], ["confidence"], ["num_sources"],
\* ["source_files"]; a dict lacking one of them raises KeyError
Displayable(result) ==
    {"answer", "confidence", "num_sources", "source_files"} \subseteq result.keys

\* what the caller does with the value ask_question returned
Deliver(who, question, result) ==
    IF who = "loop"
    THEN IF Displayable(result)
         THEN /\ last_call' = AskCall(question, "dict", result)
              /\ console' = Append(console, "result")
              /\ UNCHANGED <<loop, inputs_read, line>>
         ELSE /\ last_call' = AskCall(question, "dict", result)
              /\ handle_exception(who)
    ELSE /\ last_call' = AskCall(question, "dict", result)
         /\ UNCHANGED loopVars

\* process_question: build initial_state and enter the graph
process_question_start(who, question) ==
    /\ pc' = EntryPoint
    /\ caller' = who
    /\ state' = [NoState EXCEPT !.question = question]
    /\ log' = <<>>
    /\ llm_prompts' = <<>>
    /\ last_call' = AskCall(question, "pending", NoResult)

\* ask_question calling the workflow whatever is_initialized says
ask_question_unguarded(who, question) ==
    IF workflow = NoWorkflow
    THEN /\ last_call' = AskCall(question, "raised", NoResult)
         /\ handle_exception(who)                \* None has no process_question
         /\ UNCHANGED <<runVars, appVars>>
    ELSE /\ process_question_start(who, question)
         /\ UNCHANGED <<loopVars, appVars>>

ask_question(who, question) ==
    IF ~is_initialized
    THEN /\ Deliver(who, question, ErrorResult)
         /\ UNCHANGED <<runVars, appVars>>
    ELSE /\ process_question_start(who, question)
         /\ UNCHANGED <<loopVars, appVars>>

\* an application calling ask_question directly
api_ask_question(question) ==
    /\ pc = "idle" /\ loop = "off"
    /\ ask_question("api", question)

\* Step 1
retrieve_documents ==
    /\ pc = "retrieve_documents"
    /\ \E relevant_docs \in similarity_search(chroma_db, K) :
          state' = [state EXCEPT !.retrieved_docs = relevant_docs]
    /\ log' = Append(log, LogEntry("retrieve_documents", {"question"}, {"retrieved_docs"}))
    /\ pc' = Edge("retrieve_documents")
    /\ UNCHANGED <<appVars, loopVars, last_call, caller, llm_prompts>>

\* Step 2 also cutting the retrieved list down to its first document
analyze_relevance_rewriting_docs ==
    /\ pc = "analyze_relevance"
    /\ \E source_files \in source_files_of(state.retrieved_docs) :
          state' = [state EXCEPT !.confidence = confidence_of(state.retrieved_docs),
                                 !.source_files = source_files,
                                 !.retrieved_docs = IF state.retrieved_docs = <<>> THEN <<>>
                                                   ELSE <<Head(state.retrieved_docs)>>]
    /\ log' = Append(log, LogEntry("analyze_relevance", {"retrieved_docs"},
                                   {"confidence", "source_files", "retrieved_docs"}))
    /\ pc' = Edge("analyze_relevance")
    /\ UNCHANGED <<appVars, loopVars, last_call, caller, llm_prompts>>

\* Step 2
analyze_relevance ==
    /\ pc = "analyze_relevance"
    /\ \E source_files \in source_files_of(state.retrieved_docs) :
          state' = [state EXCEPT !.confidence = confidence_of(state.retrieved_docs),
                                 !.source_files = source_files]
    /\ log' = Append(log, LogEntry("analyze_relevance", {"retrieved_docs"},
                                   {"confidence", "source_files"}))
    /\ pc' = Edge("analyze_relevance")
    /\ UNCHANGED <<appVars, loopVars, last_call, caller, llm_prompts>>

\* Step 3
generate_answer ==
    /\ pc = "generate_answer"
    /\ llm_prompts' = Append(llm_prompts, Prompt(state.retrieved_docs, state.question))
    /\ \E answer \in Answers : state' = [state EXCEPT !.answer = answer]
    /\ log' = Append(log, LogEntry("generate_answer", {"retrieved_docs", "question"},
                                   {"answer"}))
    /\ pc' = Edge("generate_answer")
    /\ UNCHANGED <<appVars, loopVars, last_call, caller>>

\* the dict process_question returns
QueryResult(question, final_state) ==
    [keys |-> {"question", "answer", "confidence", "source_files", "num_sources"},
     error |-> "",
     question |-> question,
     answer |-> final_state.answer,
     confidence |-> final_state.confidence,
     source_files |-> final_state.source_files,
     num_sources |-> Len(final_state.retrieved_docs)]

\* workflow.invoke returned: project the result and hand it to the caller
process_question_return ==
    /\ pc = "done"
    /\ Deliver(caller, last_call.question, QueryResult(last_call.question, state))
    /\ NoRun
    /\ UNCHANGED <<appVars, caller>>

\* the node in progress raises (similarity_search or llm.invoke failing, timing
\* out, being rate limited); workflow.invoke lets the exception through
stage_raises ==
    /\ pc \in Stages
    /\ last_call' = AskCall(last_call.question, "raised", NoResult)
    /\ handle_exception(caller)
    /\ NoRun
    /\ UNCHANGED <<appVars, caller>>

----------------------------------------------------------------------------
(* Interactive surface: DocumentIntelligenceApp.interactive_mode *)

QuitTokens == { <<"q","u","i","t">>, <<"e","x","i","t">>, <<"q">> }

\* the quit test without lower()
is_quit_case_sensitive(question) == question \in QuitTokens

\* question.lower() in ['quit', 'exit', 'q']
is_quit(question) == lower(question) \in QuitTokens

InteractiveCall(returned) ==
    [op |-> "interactive_mode", folder |-> NoFolder, indexed |-> <<>>,
     created |-> FALSE, question |-> <<>>, returned |-> returned, value |-> NoResult]

\* interactive_mode is entered
interactive_mode ==
    /\ pc = "idle" /\ loop = "off"
    /\ inputs_read' = 0
    /\ line' = <<>>
    /\ IF ~is_initialized
       THEN /\ console' = <<"not initialized">>
            /\ loop' = "ended"
            /\ last_call' = InteractiveCall("None")
       ELSE /\ console' = <<>>
            /\ loop' = "running"
            /\ last_call' = InteractiveCall("pending")
    /\ UNCHANGED <<appVars, runVars>>

\* one pass of the while loop, up to the call of ask_question
read_input(raw) ==
    /\ loop = "running" /\ pc = "idle"
    /\ inputs_read < MaxInputs
    /\ inputs_read' = inputs_read + 1
    /\ line' = raw
    /\ LET question == strip(raw)
       IN  IF is_quit(question)
           THEN /\ loop' = "ended"                                   \* break
                /\ UNCHANGED <<console, last_call, appVars, runVars>>
           ELSE IF question = <<>>
           THEN /\ console' = Append(console, "Please enter a question.")
                /\ UNCHANGED <<loop, last_call, appVars, runVars>>   \* continue
           ELSE IF ~is_initialized
                THEN /\ last_call' = AskCall(question, "dict", ErrorResult)
                     /\ console' = Append(console, "error")  \* KeyError in display_result
                     /\ UNCHANGED <<loop, appVars, runVars>>
                ELSE /\ process_question_start("loop", question)
                     /\ UNCHANGED <<loop, console, appVars>>

\* Ctrl-C at the prompt or while a question is processed: except KeyboardInterrupt: break
keyboard_interrupt ==
    /\ loop = "running"
    /\ loop' = "ended"
    /\ NoRun
    /\ UNCHANGED <<appVars, caller, last_call, console, inputs_read, line>>

\* interactive_mode returns to its caller; the session is over
interactive_mode_return ==
    /\ loop = "ended"
    /\ loop' = "off"
    /\ console' = <<>>
    /\ inputs_read' = 0
    /\ line' = <<>>
    /\ last_call' = InteractiveCall("None")
    /\ UNCHANGED <<appVars, runVars>>

----------------------------------------------------------------------------

Next ==
    \/ \E folder \in Folders : setup_documents(folder)
    \/ \E question \in Questions : api_ask_question(question)
    \/ retrieve_documents
    \/ analyze_relevance
    \/ generate_answer
    \/ process_question_return
    \/ stage_raises
    \/ interactive_mode
    \/ \E raw \in Lines : read_input(raw)
    \/ keyboard_interrupt
    \/ interactive_mode_return

Spec == Init /\ [][Next]_vars

----------------------------------------------------------------------------
(* Properties *)

StageOrder == <<"retrieve_documents", "analyze_relevance", "generate_answer">>

StagesRun == [i \in 1..Len(log) |-> log[i].stage]

\* C1: in every run of process_question the stages complete in the order
\* retrieve_documents, analyze_relevance, generate_answer, each once, the stage
\* in progress is the one after the last completed, and when the graph reaches
\* END all three have run and the chat model was invoked exactly once, with the
\* context of the retrieved documents, also when none was retrieved.
C1_FixedLinearPipeline ==
    /\ Len(StagesRun) <= Len(StageOrder)
    /\ StagesRun = SubSeq(StageOrder, 1, Len(StagesRun))
    /\ pc \in Stages => pc = StageOrder[Len(StagesRun) + 1]
    /\ pc = "done" =>
          /\ StagesRun = StageOrder
          /\ Len(llm_prompts) = 1
          /\ llm_prompts[1] = Prompt(state.retrieved_docs, state.question)
    /\ pc # "done" => llm_prompts = <<>>

C1_Witness ==
    /\ pc = "done"
    /\ state.retrieved_docs = <<>>
    /\ Len(llm_prompts) = 1
    /\ llm_prompts[1].context = <<>>

\* the tier a confidence label names: the word before " - "
Tier(label) ==
    CASE label = "High - Found multiple relevant sources" -> "High"
      [] label = "Medium - Found some relevant information" -> "Medium"
      [] label = "Low - Limited relevant information found" -> "Low"
      [] OTHER -> "none"

TierForCount(n) == IF n >= 3 THEN "High" ELSE IF n >= 1 THEN "Medium" ELSE "Low"

\* C2: once analyze_relevance has run, the confidence it wrote names the tier
\* fixed by the number n of retrieved chunks alone: High when n >= 3, Medium
\* when 1 <= n < 3, Low when n = 0; the returned result carries the same label.
C2_ConfidenceByCount ==
    /\ pc \in {"generate_answer", "done"} =>
          Tier(state.confidence) = TierForCount(Len(state.retrieved_docs))
    /\ "confidence" \in last_call.value.keys =>
          Tier(last_call.value.confidence) = TierForCount(last_call.value.num_sources)

C2_Witness ==
    /\ pc = "generate_answer"
    /\ Len(state.retrieved_docs) = 3
    /\ Tier(state.confidence) = "High"

\* C3: while no setup_documents call has returned True, an ask_question call
\* returns the error dict at once: nothing is raised, no workflow run starts,
\* no stage runs and the chat model is not invoked.
C3_AskBeforeBuild ==
    (last_call.op = "ask_question" /\ ~any_setup_ok) =>
        /\ last_call.returned = "dict"
        /\ last_call.value = ErrorResult
        /\ pc = "idle"
        /\ log = <<>>
        /\ llm_prompts = <<>>

C3_Witness ==
    /\ last_call.op = "ask_question"
    /\ ~any_setup_ok
    /\ last_call.value.keys = {"error"}

\* the recognized files of the folder all yield empty or whitespace-only text
AllExtractEmpty(folder) ==
    /\ folder.exists
    /\ PdfFiles(folder) # <<>>
    /\ \A i \in 1..Len(PdfFiles(folder)) :
          ~StripIsNonEmpty(extract_text_from_pdf(PdfFiles(folder)[i]))

\* C4: a setup_documents call on a folder whose recognized files all extract
\* to empty or whitespace-only text returns False and creates no index.
C4_EmptyCorpusFails ==
    (last_call.op = "setup_documents" /\ AllExtractEmpty(last_call.folder)) =>
        /\ last_call.returned = "False"
        /\ ~last_call.created

HasNoPdf(folder) == folder.exists /\ PdfFiles(folder) = <<>>

\* C5: a setup_documents call on an existing folder without a .pdf file
\* returns False and leaves the vector store, the persisted collection, the
\* workflow and the initialized flag as they were.
C5_NoDocumentsFoundFrame ==
    [][(last_call'.op = "setup_documents" /\ HasNoPdf(last_call'.folder)) =>
          /\ last_call'.returned = "False"
          /\ ~last_call'.created
          /\ UNCHANGED <<vectorstore, chroma_db, builds, workflow, is_initialized>>]_vars

C5_Witness ==
    /\ last_call.op = "setup_documents"
    /\ HasNoPdf(last_call.folder)
    /\ last_call.returned = "False"
    /\ is_initialized
    /\ workflow.vectorstore = vectorstore
    /\ vectorstore # NoStore

ExtractsToText(f) == StripIsNonEmpty(extract_text_from_pdf(f))

\* the names of the recognized files that yield non-whitespace text, in order
ReadableNames(folder) ==
    LET good == SelectSeq(PdfFiles(folder), ExtractsToText)
    IN  [i \in 1..Len(good) |-> good[i].name]

\* C6: in a build, the documents handed to indexing are exactly the recognized
\* files that extract to non-whitespace text, whatever files failed before or
\* after them; when there is at least one, the index is created, the workflow
\* is bound to it and the call returns True.
C6_SkipFailedExtraction ==
    (last_call.op = "setup_documents" /\ last_call.folder.exists
        /\ PdfFiles(last_call.folder) # <<>>) =>
        /\ last_call.indexed = ReadableNames(last_call.folder)
        /\ last_call.indexed # <<>> =>
              /\ last_call.created
              /\ last_call.returned = "True"
              /\ is_initialized
              /\ vectorstore = builds
              /\ workflow = [vectorstore |-> vectorstore]
              /\ \A i \in 1..Len(last_call.indexed) :
                    \E c \in BagToSet(chroma_db) :
                        c.metadata.source = last_call.indexed[i]

C6_Witness ==
    /\ last_call.op = "setup_documents"
    /\ \E i, j, k \in 1..Len(last_call.folder.listing) :
          /\ i < j /\ j < k
          /\ last_call.folder.listing[i].name = "broken.pdf"
          /\ last_call.folder.listing[j].name = "A.pdf"
          /\ last_call.folder.listing[k].name = "empty.pdf"
    /\ last_call.indexed = <<"A.pdf", "B.pdf">>
    /\ last_call.returned = "True"

\* C7: once analyze_relevance has run, source_files lists each source of a
\* retrieved chunk exactly once and nothing else; it is empty when no chunk was
\* retrieved.
C7_SourceFilesDistinct ==
    pc \in {"generate_answer", "done"} =>
        LET docs == state.retrieved_docs
            files == state.source_files
        IN  /\ \A i, j \in 1..Len(files) : i # j => files[i] # files[j]
            /\ {files[i] : i \in 1..Len(files)} =
               {docs[i].metadata.source : i \in 1..Len(docs)}
            /\ docs = <<>> => files = <<>>

C7_Witness ==
    /\ pc = "generate_answer"
    /\ Len(state.retrieved_docs) = 3
    /\ Len(state.source_files) = 2

\* C8: when a stage raises while interactive_mode processes a question, the
\* run is abandoned, "Error" is the only thing printed for that question (no
\* result), and the loop is still running at the prompt, where the next input
\* is read.
C8_LoopSurvivesStageFailure ==
    /\ [][(caller = "loop" /\ pc \in Stages /\ last_call'.returned = "raised") =>
             /\ console' = Append(console, "error")
             /\ loop' = "running"
             /\ pc' = "idle"
             /\ state' = NoState
             /\ last_call'.value = NoResult]_vars
    /\ [](loop = "running" /\ pc = "idle" /\ inputs_read < MaxInputs =>
             \A raw \in Lines : ENABLED read_input(raw))

C8_Witness ==
    /\ loop = "running"
    /\ \E i, j \in 1..Len(console) :
          i < j /\ console[i] = "error" /\ console[j] = "result"

\* C9: a line that, trimmed and lower-cased, is quit, exit or q ends the loop
\* without ask_question being called or anything printed; a line that trims to
\* nothing prints the retry prompt and ask_question is not called; once the
\* loop has ended no workflow run is started for it.
C9_QuitAndEmptyInput ==
    [][/\ inputs_read' = inputs_read + 1 =>
            /\ lower(strip(line')) \in QuitTokens =>
                  /\ loop' = "ended"
                  /\ pc' = "idle"
                  /\ UNCHANGED <<console, last_call>>
            /\ strip(line') = <<>> =>
                  /\ loop' = "running"
                  /\ pc' = "idle"
                  /\ console' = Append(console, "Please enter a question.")
                  /\ UNCHANGED last_call
       /\ loop = "ended" => (pc' = "idle" /\ last_call'.op # "ask_question")
       /\ (loop' # "running" /\ pc' # "idle") => caller' = "api"]_vars

C9_Witness ==
    /\ loop = "ended"
    /\ line = <<" ", "Q", "u", "i", "t", " ">>
    /\ console = <<"result">>

Writers(f) == {i \in 1..Len(log) : f \in log[i].writes}

FieldsOf(stage) ==
    CASE stage = "retrieve_documents" -> {"retrieved_docs"}
      [] stage = "analyze_relevance" -> {"confidence", "source_files"}
      [] stage = "generate_answer" -> {"answer"}

\* C10: within a run a stage changes only its own fields (retrieved_docs:
\* retrieve_documents; confidence, source_files: analyze_relevance; answer:
\* generate_answer) and question never changes; every field is written by at
\* most one stage, and a stage reads only the question and fields written by a
\* stage completed before it; the question of the returned result is the one
\* passed in.
C10_SingleWriterFields ==
    [][/\ (pc \in Stages /\ pc' \in Stages \cup {"done"}) =>
            /\ state'.question = state.question
            /\ \A f \in Fields \ FieldsOf(pc) : state'[f] = state[f]
       /\ \A f \in Fields : Cardinality(Writers(f)') <= 1
       /\ Writers("question")' = {}
       /\ \A i \in 1..Len(log') : \A f \in log'[i].reads \ {"question"} :
             \E j \in 1..(i - 1) : f \in log'[j].writes
       /\ (pc = "done" /\ last_call'.returned = "dict") =>
             /\ last_call'.value.question = last_call.question
             /\ last_call'.value.question = state.question
             /\ last_call'.value.num_sources = Len(state.retrieved_docs)]_vars

C10_Witness ==
    /\ last_call.op = "ask_question"
    /\ last_call.returned = "dict"
    /\ last_call.value.question = <<"W", "h", "y">>
    /\ last_call.value.num_sources = 2
    /\ caller = "loop"

====
